---- MODULE Spec2Model ----
(***************************************************************************)
(* Baseline-dependent averaging row mapper:                               *)
(* africanus/averaging/bda_mapping.py, function _impl.                     *)
(*                                                                         *)
(* Numbers.  Times and intervals are integers in ticks; intervals are     *)
(* even, so that interval * 0.5 is exact.  uvw coordinates and            *)
(* frequencies are integers.  Every other real quantity (l, m, n_max,     *)
(* phases, sinc values, decorrelation, max_abs_dist, max_dnu) is a        *)
(* fixed-point number: the integer v stands for v / Scale.                *)
(*                                                                         *)
(* Inputs.  The row layout (time, antenna1, antenna2 of every row), the   *)
(* threshold and lm_max are fixed by Init.  uvw[r] and interval[r] are    *)
(* read once, in the loop iteration that processes row r, and are drawn   *)
(* there.  Intervals are positive and unique times are at least two       *)
(* ticks apart, so dt in the loop is positive.                            *)
(*                                                                         *)
(* The frequency phase difference is a local of the whole function that   *)
(* only the multi-sample closure assigns; dphi_freq = -1 stands for       *)
(* "never assigned", and a read of it then yields any of UninitVals.      *)
(* bin_flag_count and sentinel are written and never read, and are left   *)
(* out.  The history variables record what the run has done (the rows of  *)
(* the open bin, the latest closure with the values it used and printed,  *)
(* how often each row was put in a closed bin); no action reads them.     *)
(***************************************************************************)
EXTENDS Integers, Sequences, FiniteSets, TLC

\* ------------------------------------------------------------------ bounds
MaxRows == 3
Scale == 1000
MaxChan == 6

\* ------------------------------------------------------- input value sets
TimeVals == {0, 2, 4}
Intervals == {2, 6}
AntPairs == {<<0, 1>>, <<0, 2>>}
UVWs == {<<0, 0, 0>>, <<2, 1, 1>>}
Decorrelations == {(9 * Scale) \div 10, Scale, (3 * Scale) \div 2}
LmMaxVals == {0, Scale}
\* what a read of the never-assigned frequency phase difference can yield
UninitVals == {0, Scale}

\* ------------------------------------------------- fixed-point arithmetic
Abs(a) == IF a < 0 THEN -a ELSE a

\* division rounding toward zero, as symmetric in sign as float division
TDiv(a, b) ==
  IF (a >= 0) = (b > 0) THEN Abs(a) \div Abs(b) ELSE -(Abs(a) \div Abs(b))

FMul(a, b) == TDiv(a * b, Scale)
FDiv(a, b) == TDiv(a * Scale, b)

RECURSIVE ISqrtFrom(_, _)
ISqrtFrom(n, g) ==
  LET h == (g + n \div g) \div 2
  IN  IF h >= g THEN g ELSE ISqrtFrom(n, h)

ISqrt(n) == IF n = 0 THEN 0 ELSE ISqrtFrom(n, n)

\* np.sqrt
FSqrt(a) == ISqrt(a * Scale)

\* np.pi
Pi == (31416 * Scale) \div 10000

RECURSIVE SinSeries(_, _, _, _)
SinSeries(term, x2, k, acc) ==
  IF term = 0 \/ k > 12 THEN acc
  ELSE LET nxt == -TDiv(FMul(term, x2), (2 * k) * (2 * k + 1))
       IN  SinSeries(nxt, x2, k + 1, acc + nxt)

\* np.sin, by its Taylor series
Sin(x) == SinSeries(x, FMul(x, x), 1, x)

\* np.sin(x) / x
SinOverX(x) == FDiv(Sin(x), x)

RECURSIVE RootBetween(_, _, _)
RootBetween(lo, hi, target) ==
  IF hi - lo <= 1 THEN hi
  ELSE LET mid == (lo + hi) \div 2
       IN  IF SinOverX(mid) <= target THEN RootBetween(lo, mid, target)
           ELSE RootBetween(mid, hi, target)

\* The Newton-Raphson loop, by the value it converges to: the phase in
\* (0, pi] whose sinc is the target.  The iteration itself (its number of
\* steps and its rounding) is below the resolution of the fixed-point
\* numbers and is not modelled.
NewtonRaphson(target) == RootBetween(0, Pi, target)

\* ------------------------------------------------------------------ state
VARIABLES
  \* arguments of _impl
  nrow, time, ant1, ant2, decorrelation, lm_max,
  ref_freq, chan_freq, chan_width,
  \* control: the position in _impl, and the exception raised
  pc, err,
  \* index construction
  r, row_lookup,
  \* the loops over baselines and unique times
  bl, t,
  \* binning state
  tbin, bin_count, bin_time_low, bin_u_low, bin_v_low, bin_w_low,
  bin_sinc_dphi,
  \* function-scope locals that outlive one bin closure
  dphi_freq, max_dnu, chan_bins,
  \* history (not program state): what the run has done so far
  chan_lows, closure, binned, bin_rows, bin_time_high, nseen, first_uvw,
  drift, win_ok, last_join_sinc, dphi_src

inputs == <<nrow, time, ant1, ant2, decorrelation, lm_max,
            ref_freq, chan_freq, chan_width>>
index == <<r, row_lookup>>
loops == <<bl, t>>
bin == <<tbin, bin_count, bin_time_low, bin_u_low, bin_v_low, bin_w_low,
         bin_sinc_dphi>>
locals == <<dphi_freq, max_dnu, chan_bins>>
history == <<chan_lows, closure, binned, bin_rows, bin_time_high, nseen,
             first_uvw, drift, win_ok, last_join_sinc, dphi_src>>
vars == <<inputs, pc, err, index, loops, bin, locals, history>>

Rows == 0 .. nrow - 1

\* ------------------------------------------------- derived read-only data
\* l = m = np.sqrt(0.5 * lm_max)
l == FSqrt(FMul(Scale \div 2, lm_max))
m == l

n_term == Scale - FMul(l, l) - FMul(m, m)
n_max == IF n_term >= 0 THEN FSqrt(n_term) - Scale ELSE -Scale

\* unique_time(time): the distinct times, ascending, and each row's index
utime == {time[q] : q \in Rows}
ntime == Cardinality(utime)
time_inv(q) == Cardinality({u \in utime : u < time[q]})

\* unique_baselines(ant1, ant2): the distinct antenna pairs, ordered, and
\* each row's index
PairBefore(a, b) == a[1] < b[1] \/ (a[1] = b[1] /\ a[2] < b[2])
ubl == {<<ant1[q], ant2[q]>> : q \in Rows}
nbl == Cardinality(ubl)
bl_inv(q) == Cardinality({p \in ubl : PairBefore(p, <<ant1[q], ant2[q]>>)})

\* the record of the latest bin closure, before any has happened
NoClosure ==
  [bl |-> -1, tbin |-> -1, bin_count |-> 0, single |-> FALSE,
   raw |-> <<0, 0, 0>>, eff |-> <<0, 0, 0>>, low |-> <<0, 0, 0>>,
   dist |-> 0, divisor |-> 0, target |-> 0, dphi |-> 0, src |-> <<-1, -1>>,
   rows |-> {}, time_low |-> 0, time_high |-> 0, new_low |-> 0,
   win_ok |-> FALSE, joined |-> -1, emitted |-> FALSE]

\* the channel grid of the binning runs: four contiguous channels
MainChanFreq == [c \in 0 .. 3 |-> 1 + 2 * c]
MainChanWidth == [c \in 0 .. 3 |-> 2]

Init ==
  /\ nrow \in 0 .. MaxRows
  /\ time \in [Rows -> TimeVals]
  /\ \E a \in [Rows -> AntPairs] :
       /\ ant1 = [q \in Rows |-> a[q][1]]
       /\ ant2 = [q \in Rows |-> a[q][2]]
  /\ decorrelation \in Decorrelations
  /\ lm_max \in LmMaxVals
  /\ ref_freq = 4
  /\ chan_freq = MainChanFreq
  /\ chan_width = MainChanWidth
  /\ pc = "start"
  /\ err = "none"
  /\ r = 0
  /\ row_lookup = <<>>
  /\ bl = 0
  /\ t = 0
  /\ tbin = 0
  /\ bin_count = 0
  /\ bin_time_low = 0
  /\ bin_u_low = 0
  /\ bin_v_low = 0
  /\ bin_w_low = 0
  /\ bin_sinc_dphi = 0
  /\ dphi_freq = -1
  /\ max_dnu = 0
  /\ chan_bins = 0
  /\ chan_lows = <<>>
  /\ closure = NoClosure
  /\ binned = [q \in Rows |-> 0]
  /\ bin_rows = {}
  /\ bin_time_high = 0
  /\ nseen = 0
  /\ first_uvw = <<0, 0, 0>>
  /\ drift = FALSE
  /\ win_ok = TRUE
  /\ last_join_sinc = -1
  /\ dphi_src = <<-1, -1>>

\* ------------------------------------------------------ argument check
\* "if decorrelation < 0.0 or decorrelation > 1.0: raise ValueError", then
\* the table of absent entries
ValidateArgs ==
  /\ pc = "start"
  /\ IF decorrelation < 0 \/ decorrelation > Scale
       THEN /\ pc' = "error"
            /\ err' = "decorrelation"
            /\ UNCHANGED row_lookup
       ELSE /\ pc' = "index"
            /\ err' = err
            /\ row_lookup' = [b \in 0 .. nbl - 1 |-> [u \in 0 .. ntime - 1 |-> -1]]
  /\ UNCHANGED <<inputs, r, loops, bin, locals, history>>

\* ---------------------------------------------------- index construction
\* variant: the check for an occupied cell left out
CellTakenNever(b, u) == FALSE

\* "if row_lookup[bl, t] != -1"
CellTaken(b, u) == row_lookup[b][u] # -1

\* one iteration of "for r in range(nrow)"
IndexRow ==
  /\ pc = "index"
  /\ r < nrow
  /\ LET u == time_inv(r)
         b == bl_inv(r)
     IN  IF CellTaken(b, u)
           THEN /\ pc' = "error"
                /\ err' = "duplicate"
                /\ UNCHANGED <<r, row_lookup>>
           ELSE /\ row_lookup' = [row_lookup EXCEPT ![b][u] = r]
                /\ r' = r + 1
                /\ UNCHANGED <<pc, err>>
  /\ UNCHANGED <<inputs, loops, bin, locals, history>>

\* the index loop is over: "for bl in range(nbl)" begins
IndexDone ==
  /\ pc = "index"
  /\ r = nrow
  /\ pc' = "baseline"
  /\ bl' = 0
  /\ UNCHANGED <<inputs, err, index, t, bin, locals, history>>

\* --------------------------------------------------------------- binning
\* the top of "for bl in range(nbl)": fresh binning state for the baseline,
\* or the end of _impl when no baseline is left
BeginBaseline ==
  /\ pc = "baseline"
  /\ IF bl < nbl
       THEN /\ pc' = "time"
            /\ t' = 0
            /\ tbin' = 0
            /\ bin_count' = 0
            /\ bin_time_low' = 0
            /\ bin_u_low' = 0
            /\ bin_v_low' = 0
            /\ bin_w_low' = 0
            /\ bin_sinc_dphi' = 0
            /\ bin_rows' = {}
            /\ bin_time_high' = 0
            /\ nseen' = 0
            /\ first_uvw' = <<0, 0, 0>>
            /\ drift' = FALSE
            /\ win_ok' = TRUE
            /\ last_join_sinc' = -1
       ELSE /\ pc' = "done"
            /\ UNCHANGED <<t, bin, bin_rows, bin_time_high, nseen,
                           first_uvw, drift, win_ok, last_join_sinc>>
  /\ UNCHANGED <<inputs, err, index, bl, locals, chan_lows, closure,
                 binned, dphi_src>>

\* "for t in range(ntime)" is exhausted: on to the next baseline.  The
\* open bin is left as it is.
EndBaseline ==
  /\ pc = "time"
  /\ t = ntime
  /\ pc' = "baseline"
  /\ bl' = bl + 1
  /\ UNCHANGED <<inputs, err, index, t, bin, locals, history>>

\* "if r == -1: continue"
SkipAbsent ==
  /\ pc = "time"
  /\ t < ntime
  /\ row_lookup[bl][t] = -1
  /\ t' = t + 1
  /\ UNCHANGED <<inputs, pc, err, index, bl, bin, locals, history>>

\* what a row adds to the history of its baseline
SeeRow(row, uvw, half_int) ==
  /\ nseen' = nseen + 1
  /\ first_uvw' = IF nseen = 0 THEN uvw ELSE first_uvw
  /\ drift' = (drift \/ (nseen > 0 /\ uvw # first_uvw))
  /\ win_ok' = (win_ok /\ (nseen = 0 \/ time[row] - half_int >= bin_time_high))
  /\ bin_time_high' = time[row] + half_int

\* "if bin_count == 0": the first row of the baseline starts its first bin
StartBin ==
  /\ pc = "time"
  /\ t < ntime
  /\ row_lookup[bl][t] # -1
  /\ bin_count = 0
  /\ \E uvw \in UVWs, interval \in Intervals :
       LET row == row_lookup[bl][t]
           half_int == interval \div 2
       IN  /\ bin_time_low' = time[row] - half_int
           /\ bin_u_low' = uvw[1]
           /\ bin_v_low' = uvw[2]
           /\ bin_w_low' = uvw[3]
           /\ bin_sinc_dphi' = 0
           /\ bin_count' = bin_count + 1
           /\ bin_rows' = {row}
           /\ last_join_sinc' = -1
           /\ SeeRow(row, uvw, half_int)
  /\ t' = t + 1
  /\ UNCHANGED <<inputs, pc, err, index, bl, tbin, locals, chan_lows,
                 closure, binned, dphi_src>>

\* "sinc = 1.0 if dphi == 0.0 else np.sin(dphi) / dphi"
Sinc(dphi) == IF dphi = 0 THEN Scale ELSE SinOverX(dphi)

\* the decorrelation a row would add to the open bin: the phase difference
\* in time pi * (l * du / dt + m * dv / dt), and its sinc
SincOfRow(row, uvw, half_int) ==
  LET dt == time[row] + half_int - bin_time_low
      du == uvw[1] - bin_u_low
      dv == uvw[2] - bin_v_low
      du_dt == TDiv(l * du, dt)
      dv_dt == TDiv(m * dv, dt)
  IN  Sinc(FMul(Pi, du_dt + dv_dt))

\* variant: the comparison reversed
JoinsFlipped(sinc, threshold) == sinc < threshold

\* variant: a row at the threshold joins
JoinsInclusive(sinc, threshold) == sinc >= threshold

\* "if sinc > decorrelation"
Joins(sinc, threshold) == sinc > threshold

\* variant: the record of the joined row's sinc is not kept
JoinSincForgotten(old, sinc) == old

\* "bin_sinc = sinc": the record kept when a row joins
JoinSinc(old, sinc) == sinc

\* the row joins the open bin
JoinBin ==
  /\ pc = "time"
  /\ t < ntime
  /\ row_lookup[bl][t] # -1
  /\ bin_count # 0
  /\ \E uvw \in UVWs, interval \in Intervals :
       LET row == row_lookup[bl][t]
           half_int == interval \div 2
       IN  \E sinc \in {SincOfRow(row, uvw, half_int)} :
             /\ Joins(sinc, decorrelation)
             /\ bin_sinc_dphi' = JoinSinc(bin_sinc_dphi, sinc)
             /\ bin_count' = bin_count + 1
             /\ bin_rows' = bin_rows \cup {row}
             /\ last_join_sinc' = sinc
             /\ SeeRow(row, uvw, half_int)
  /\ t' = t + 1
  /\ UNCHANGED <<inputs, pc, err, index, bl, tbin, bin_time_low, bin_u_low,
                 bin_v_low, bin_w_low, locals, chan_lows, closure, binned,
                 dphi_src>>

\* ------------------------------------------------------ channel binning
\* variant: a span equal to max_dnu starts a new channel bin
ExceedsOrMeets(dnu, mx) == dnu * Scale >= mx

\* "if dnu > max_dnu"
Exceeds(dnu, mx) == dnu * Scale > mx

RECURSIVE ChanScan(_, _, _, _, _, _, _)
\* "for c in range(1, chan_freq.shape[0])", from channel c on; lows is the
\* list of the values bin_chan_low has taken
ChanScan(cf, cw, mx, c, bin_freq_low, lows, bins) ==
  IF c >= Cardinality(DOMAIN cf) THEN [lows |-> lows, bins |-> bins + 1]
  ELSE LET dnu == cf[c] + cw[c] \div 2 - bin_freq_low
       IN  IF Exceeds(dnu, mx)
             THEN ChanScan(cf, cw, mx, c + 1, cf[c] - cw[c] \div 2,
                           Append(lows, c), bins + 1)
             ELSE ChanScan(cf, cw, mx, c + 1, bin_freq_low, lows, bins)

\* the channel bins of a time bin whose maximum bandwidth is mx
ChanBinning(cf, cw, mx) ==
  ChanScan(cf, cw, mx, 1, cf[0] - cw[0] \div 2, <<0>>, 0)

\* ------------------------------------------------------------ bin closure
\* variant: the single-sample case keeps the row's deltas
ClosureDeltasNoOverride(single, raw, low) == raw

\* "if bin_count == 1: du = bin_u_low; dv = bin_v_low; dw = bin_w_low"
ClosureDeltas(single, raw, low) == IF single THEN low ELSE raw

\* "np.sqrt(np.abs(du)*np.abs(l) + np.abs(dv)*np.abs(m) +
\*          np.abs(dw)*np.abs(n_max))"
MaxAbsDist(d) ==
  FSqrt(Abs(d[1]) * Abs(l) + Abs(d[2]) * Abs(m) + Abs(d[3]) * Abs(n_max))

\* variant: the lower time boundary is not reset at a closure
KeepTimeLow(old, tm, half_int) == old

\* "bin_time_low = time[r] - half_int" of the bin that starts at a closure
ResetTimeLow(old, tm, half_int) == tm - half_int

\* the row does not join: the open bin is closed and the row starts the
\* next one, or the closure raises "max_abs_dist == 0.0"
CloseBin ==
  /\ pc = "time"
  /\ t < ntime
  /\ row_lookup[bl][t] # -1
  /\ bin_count # 0
  /\ \E uvw \in UVWs, interval \in Intervals,
        junk \in (IF dphi_freq = -1 /\ bin_count = 1 THEN UninitVals ELSE {0}) :
       LET row == row_lookup[bl][t]
           half_int == interval \div 2
           single == bin_count = 1
           low == <<bin_u_low, bin_v_low, bin_w_low>>
           raw == <<uvw[1] - bin_u_low, uvw[2] - bin_v_low, uvw[3] - bin_w_low>>
           eff == ClosureDeltas(single, raw, low)
           \* "sinc_dphi_freq": the target of the solve
           target == IF single THEN decorrelation
                     ELSE FDiv(decorrelation, bin_sinc_dphi)
           src == IF single THEN dphi_src ELSE <<bl, tbin>>
           new_low == ResetTimeLow(bin_time_low, time[row], half_int)
       IN  /\ ~Joins(SincOfRow(row, uvw, half_int), decorrelation)
           \* dphi: the frequency phase difference the closure goes on
           \* with: the solve's result, or whatever the local holds when
           \* no solve runs
           /\ \E dphi \in {IF single
                             THEN (IF dphi_freq = -1 THEN junk ELSE dphi_freq)
                             ELSE NewtonRaphson(target)},
                 max_abs_dist \in {MaxAbsDist(eff)} :
                /\ bin_sinc_dphi' = IF single THEN Scale ELSE bin_sinc_dphi
                /\ dphi_freq' = dphi
                /\ dphi_src' = src
                /\ closure' =
                     [bl |-> bl, tbin |-> tbin, bin_count |-> bin_count,
                      single |-> single, raw |-> raw, eff |-> eff,
                      low |-> low, dist |-> max_abs_dist,
                      divisor |-> bin_sinc_dphi, target |-> target,
                      dphi |-> dphi, src |-> src, rows |-> bin_rows,
                      time_low |-> bin_time_low, time_high |-> bin_time_high,
                      new_low |-> new_low,
                      win_ok |-> (win_ok /\ time[row] - half_int >= bin_time_high),
                      joined |-> last_join_sinc,
                      emitted |-> max_abs_dist # 0]
                /\ IF max_abs_dist = 0
                     THEN /\ pc' = "error"
                          /\ err' = "degenerate"
                          /\ UNCHANGED <<t, tbin, bin_count, bin_time_low,
                                         bin_u_low, bin_v_low, bin_w_low,
                                         max_dnu, chan_bins, chan_lows, binned,
                                         bin_rows, bin_time_high, nseen,
                                         first_uvw, drift, win_ok,
                                         last_join_sinc>>
                     ELSE LET fractional_bandwidth == FDiv(dphi, max_abs_dist)
                              mx == 2 * ref_freq * fractional_bandwidth
                              chans == ChanBinning(chan_freq, chan_width, mx)
                          IN  /\ max_dnu' = mx
                              /\ chan_bins' = chans.bins
                              /\ chan_lows' = chans.lows
                              /\ tbin' = tbin + 1
                              /\ bin_count' = 1
                              /\ bin_time_low' = new_low
                              /\ bin_u_low' = uvw[1]
                              /\ bin_v_low' = uvw[2]
                              /\ bin_w_low' = uvw[3]
                              /\ binned' = [q \in Rows |->
                                              IF q \in bin_rows
                                                THEN binned[q] + 1
                                                ELSE binned[q]]
                              /\ bin_rows' = {row}
                              /\ last_join_sinc' = -1
                              /\ SeeRow(row, uvw, half_int)
                              /\ t' = t + 1
                              /\ UNCHANGED <<pc, err>>
  /\ UNCHANGED <<inputs, index, bl>>

Next ==
  \/ ValidateArgs
  \/ IndexRow
  \/ IndexDone
  \/ BeginBaseline
  \/ SkipAbsent
  \/ StartBin
  \/ JoinBin
  \/ CloseBin
  \/ EndBaseline

Spec == Init /\ [][Next]_vars

\* ------------------------------------- channel binning on its own
\* a grid of n channels of width w whose centres are step apart
Grid(n, f0, step) == [c \in 0 .. n - 1 |-> f0 + c * step]
Widths(n, w) == [c \in 0 .. n - 1 |-> w]

InitChan ==
  /\ \E n \in 1 .. MaxChan, w \in {2, 4}, gap \in {0, 2}, k \in 0 .. 8 :
       /\ chan_freq = Grid(n, 11, w + gap)
       /\ chan_width = Widths(n, w)
       /\ max_dnu = (k * w * Scale) \div 2
  /\ ref_freq = 4
  /\ nrow = 0
  /\ time = <<>>
  /\ ant1 = <<>>
  /\ ant2 = <<>>
  /\ decorrelation = Scale
  /\ lm_max = Scale
  /\ pc = "chan"
  /\ err = "none"
  /\ r = 0
  /\ row_lookup = <<>>
  /\ bl = 0
  /\ t = 0
  /\ tbin = 0
  /\ bin_count = 0
  /\ bin_time_low = 0
  /\ bin_u_low = 0
  /\ bin_v_low = 0
  /\ bin_w_low = 0
  /\ bin_sinc_dphi = 0
  /\ dphi_freq = -1
  /\ chan_bins = 0
  /\ chan_lows = <<>>
  /\ closure = NoClosure
  /\ binned = <<>>
  /\ bin_rows = {}
  /\ bin_time_high = 0
  /\ nseen = 0
  /\ first_uvw = <<0, 0, 0>>
  /\ drift = FALSE
  /\ win_ok = TRUE
  /\ last_join_sinc = -1
  /\ dphi_src = <<-1, -1>>

\* lines 319-335 applied to the grid and to max_dnu
ApplyChanBinning ==
  /\ pc = "chan"
  /\ LET chans == ChanBinning(chan_freq, chan_width, max_dnu)
     IN  /\ chan_bins' = chans.bins
         /\ chan_lows' = chans.lows
  /\ pc' = "chan_done"
  /\ UNCHANGED <<inputs, err, index, loops, bin, dphi_freq, max_dnu, closure,
                 binned, bin_rows, bin_time_high, nseen, first_uvw, drift,
                 win_ok, last_join_sinc, dphi_src>>

NextChan == ApplyChanBinning

SpecChan == InitChan /\ [][NextChan]_vars

\* ================================================================ claims
nchan == Cardinality(DOMAIN chan_freq)

HasDuplicate ==
  \E q1 \in Rows, q2 \in Rows :
    /\ q1 # q2
    /\ time[q1] = time[q2]
    /\ ant1[q1] = ant1[q2]
    /\ ant2[q1] = ant2[q2]

NothingBinned ==
  /\ bl = 0
  /\ nseen = 0
  /\ bin_count = 0
  /\ closure = NoClosure
  /\ \A q \in Rows : binned[q] = 0

\* C1: with two rows at one (time, antenna1, antenna2) the index loop never
\* completes: the call ends in the duplicate error with nothing binned and
\* never reaches the baseline loop.  Without such a pair no duplicate error
\* is raised, and every row indexed so far (every row, once the loop is
\* over) sits in the cell of its baseline and time.  (Index construction is
\* reached only with 0 <= decorrelation <= 1.)
C1_IndexOneRowPerCell ==
  /\ HasDuplicate =>
       /\ pc \in {"start", "index", "error"}
       /\ pc = "index" => r < nrow
       /\ pc = "error" => /\ err \in {"duplicate", "decorrelation"}
                          /\ NothingBinned
  /\ ~HasDuplicate => err # "duplicate"
  /\ err = "duplicate" => NothingBinned
  /\ pc # "start" /\ err # "decorrelation" =>
       \A q \in Rows :
         q < r => row_lookup[bl_inv(q)][time_inv(q)] = q
  /\ pc \in {"baseline", "time", "done"} => r = nrow

C1_Witness ==
  /\ HasDuplicate
  /\ pc = "error"
  /\ err = "duplicate"
  /\ r > 0

\* C2 (as amended): when the rows of a baseline have sampling windows
\* [time - interval/2, time + interval/2] that do not overlap (intervals
\* positive), the bin started at a closure has a lower time boundary
\* strictly above that of the bin just closed, and not below the upper
\* edge of the closed bin's last row.
C2_BinLowsIncreaseForDisjointWindows ==
  closure.emitted /\ closure.win_ok =>
    /\ closure.new_low > closure.time_low
    /\ closure.new_low >= closure.time_high

C2_Witness ==
  /\ closure.emitted
  /\ closure.win_ok
  /\ closure.tbin = 1
  /\ bin_time_low = closure.new_low

\* C2 (as stated): the same for any per-row interval values.
C2_BinLowsIncreaseAlways ==
  closure.emitted =>
    /\ closure.new_low > closure.time_low
    /\ closure.new_low >= closure.time_high

\* C3: when the binner finishes without error, every row is in exactly one
\* closed time bin.
C3_EveryRowInOneClosedBin ==
  pc = "done" => \A q \in Rows : binned[q] = 1

\* C4: the frequency phase difference a closure goes on with is computed by
\* that closure, from its own bin: it is neither a value left by an earlier
\* closure nor a value never assigned.
C4_ClosureUsesOwnPhase ==
  closure.emitted => closure.src = <<closure.bl, closure.tbin>>

WeightedZero(d) ==
  Abs(d[1]) * Abs(l) + Abs(d[2]) * Abs(m) + Abs(d[3]) * Abs(n_max) = 0

\* C5 (as amended): a closure aborts the call with the degenerate-geometry
\* error exactly when its max_abs_dist is zero.  A closure whose triggering
\* row has the uvw of the bin's lower edge (du = dv = dw = 0) is the closure
\* of a single-sample bin, where du, dv, dw are replaced by the bin's lower
\* u, v, w: it aborts exactly when |u_low||l| + |v_low||m| + |w_low||n_max|
\* is zero, and emits the bin otherwise.
C5_DegenerateClosureAborts ==
  closure.bl # -1 =>
    /\ closure.dist = 0 <=> ~closure.emitted
    /\ ~closure.emitted => pc = "error" /\ err = "degenerate"
    /\ closure.raw = <<0, 0, 0>> =>
         /\ closure.single
         /\ closure.eff = closure.low
         /\ closure.emitted <=> ~WeightedZero(closure.low)

C5_Witness ==
  /\ closure.bl # -1
  /\ closure.raw = <<0, 0, 0>>
  /\ l # 0 /\ m # 0 /\ n_max # 0
  /\ pc = "error"
  /\ err = "degenerate"

\* C5 (as stated): a closure whose triggering row has the uvw of the bin's
\* lower edge, with l, m, n_max nonzero, has max_abs_dist zero and aborts.
C5_SameUvwClosureAborts ==
  (/\ closure.bl # -1
   /\ closure.raw = <<0, 0, 0>>
   /\ l # 0 /\ m # 0 /\ n_max # 0) =>
    /\ closure.dist = 0
    /\ pc = "error"
    /\ err = "degenerate"

Uniform ==
  /\ \A c \in DOMAIN chan_width : chan_width[c] = chan_width[0]
  /\ \A c \in DOMAIN chan_freq : chan_freq[c] = chan_freq[0] + c * chan_width[0]

\* the lower channel of the run that channel c - 1 is in
RunLow(c) ==
  LET before == {x \in 1 .. Len(chan_lows) : chan_lows[x] < c}
  IN  chan_lows[CHOOSE x \in before : \A y \in before : y <= x]

InLows(c) == \E x \in 1 .. Len(chan_lows) : chan_lows[x] = c

\* C6: the channel bins are consecutive runs from channel 0; a run starts
\* at channel c exactly when the span from the lower edge of the current
\* run to the upper edge of c exceeds max_dnu.  On a contiguous grid of
\* equal widths with max_dnu three widths, the runs start at 0, 3, 6, ...:
\* three channels each, the last possibly shorter.
C6_ChannelBins ==
  pc = "chan_done" =>
    /\ chan_bins = Len(chan_lows)
    /\ chan_lows[1] = 0
    /\ \A x \in 1 .. Len(chan_lows) - 1 : chan_lows[x] < chan_lows[x + 1]
    /\ \A c \in 1 .. nchan - 1 :
         InLows(c) <=>
           (chan_freq[c] + chan_width[c] \div 2
              - (chan_freq[RunLow(c)] - chan_width[RunLow(c)] \div 2)) * Scale
             > max_dnu
    /\ Uniform /\ max_dnu = 3 * chan_width[0] * Scale =>
         /\ chan_bins = (nchan + 2) \div 3
         /\ \A x \in 1 .. chan_bins : chan_lows[x] = 3 * (x - 1)

C6_Witness ==
  /\ pc = "chan_done"
  /\ Uniform
  /\ max_dnu = 3 * chan_width[0] * Scale
  /\ nchan = 5
  /\ chan_lows = <<0, 3>>

\* C7 (as amended): with decorrelation below 1, a baseline whose rows so
\* far all carry the same uvw has had no closure: every row after the first
\* evaluated sinc = 1 and joined, and all its rows are in the one open bin.
C7_NoDriftOneBin ==
  (/\ pc = "time"
   /\ decorrelation < Scale
   /\ ~drift
   /\ nseen >= 1) =>
    /\ tbin = 0
    /\ closure.bl # bl
    /\ bin_count = nseen
    /\ Cardinality(bin_rows) = nseen
    /\ nseen >= 2 => bin_sinc_dphi = Scale

C7_Witness ==
  /\ pc = "time"
  /\ decorrelation < Scale
  /\ ~drift
  /\ nseen = 3
  /\ bin_count = 3
  /\ bin_time_low = -1
  /\ bin_time_high = 5

\* C7 (as stated): the same for every decorrelation threshold.
C7_NoDriftOneBinAnyThreshold ==
  (/\ pc = "time"
   /\ ~drift
   /\ nseen >= 1) =>
    /\ tbin = 0
    /\ closure.bl # bl
    /\ bin_count = nseen

\* C8: with decorrelation 1.0 no row joins: the open bin never holds more
\* than one row, every closure is that of a single-sample bin, and after
\* the k-th row of a baseline the time-bin index is k - 1; the only error
\* a closure raises is the degenerate-geometry one.
C8_ThresholdOneSingleSampleBins ==
  decorrelation = Scale =>
    /\ bin_count <= 1
    /\ closure.bl # -1 => closure.single /\ closure.bin_count = 1
    /\ pc = "time" /\ nseen >= 1 => tbin = nseen - 1 /\ bin_count = 1
    /\ pc = "error" => err \in {"duplicate", "degenerate"}
    /\ err = "degenerate" => ~closure.emitted

C8_Witness ==
  /\ decorrelation = Scale
  /\ pc = "time"
  /\ nseen = 3
  /\ tbin = 2
  /\ ~drift

\* C10: a bin of more than one row carries the sinc of the row that joined
\* it last, which is above the threshold; so when such a bin is closed the
\* divisor of the target is that value, is not zero, and the target
\* decorrelation / bin_sinc is in [0, 1).
C10_DivisorIsLastJoinedSinc ==
  /\ bin_count > 1 =>
       /\ bin_sinc_dphi = last_join_sinc
       /\ bin_sinc_dphi > decorrelation
  /\ closure.bl # -1 /\ ~closure.single =>
       /\ closure.divisor = closure.joined
       /\ closure.divisor > decorrelation
       /\ closure.divisor # 0
       /\ closure.target = FDiv(decorrelation, closure.divisor)
       /\ closure.target >= 0
       /\ closure.target < Scale

C10_Witness ==
  /\ closure.bl # -1
  /\ ~closure.single
  /\ closure.bin_count = 2
  /\ closure.emitted

====
